---- MODULE Spec2Model ----
(***************************************************************************)
(* Model of the ETL flow in src/etl/dataflow.py (data_flow and the tasks   *)
(* and subflow it calls).                                                  *)
(*                                                                         *)
(* Strings are sequences of one-character strings.  A pandas frame is a    *)
(* record of its column keys and rows.  Calls into libraries (the capacity *)
(* API, the generation codec, the e-mail task) are inputs drawn from small *)
(* sets.  The retry and final-state rules are those of the workflow        *)
(* library the decorators @task / @flow come from (2.x line, fixed by the  *)
(* imports at dataflow.py:155-156):                                        *)
(*   - retries=n allows n re-executions after the first one;               *)
(*   - a task or subflow called directly raises in the caller when its     *)
(*     final state is Failed;                                              *)
(*   - a flow function that returns None takes its final state from the    *)
(*     task runs submitted inside it: Failed if any of them failed.        *)
(***************************************************************************)
EXTENDS Integers, Sequences, FiniteSets, TLC

VARIABLES event_msg, state, failed_at, event_payload, region_code, region,
          fetch_log, api_series, installed_capacity, generation_df,
          transform_attempts, data, send_attempts, mail, inputs

vars == <<event_msg, state, failed_at, event_payload, region_code, region,
          fetch_log, api_series, installed_capacity, generation_df,
          transform_attempts, data, send_attempts, mail, inputs>>

(* ------------------------------ bounds --------------------------------- *)
MaxFrags == 3
MaxEventLen == 43
MaxRows == 2
NumUsers == 2

(* ------------------------------ strings -------------------------------- *)
Marker == <<"<","m","s","g",":","P","a","y","l","o","a","d",">">>

ClosingTag == <<"<","/","i","n","B","i","d","d","i","n","g","Z","o","n","e",
                "_","D","o","m","a","i","n",".","m","R","I","D",">">>

Fragments == {Marker, ClosingTag, <<"D","E">>, <<"X">>}

RECURSIVE Concat(_)
Concat(ss) == IF ss = <<>> THEN <<>> ELSE Head(ss) \o Concat(Tail(ss))

\* the raw events: up to MaxFrags fragments, MaxEventLen characters
Events ==
    {e \in {Concat(fs) :
                fs \in UNION {[1..n -> Fragments] : n \in 0..MaxFrags}} :
        Len(e) <= MaxEventLen}

StartsAt(s, i, lit) ==
    /\ i + Len(lit) - 1 <= Len(s)
    /\ \A k \in 1..Len(lit) : s[i + k - 1] = lit[k]

\* index of the first occurrence of lit in s, 0 when there is none
Find(s, lit) ==
    LET hits == {i \in 1..Len(s) : StartsAt(s, i, lit)}
    IN  IF hits = {} THEN 0 ELSE CHOOSE i \in hits : \A j \in hits : i <= j

\* str.split(sep): the list of pieces between the occurrences of sep
RECURSIVE Split(_, _)
Split(s, sep) ==
    LET i == Find(s, sep)
    IN  IF i = 0 THEN <<s>>
        ELSE <<SubSeq(s, 1, i - 1)>>
             \o Split(SubSeq(s, i + Len(sep), Len(s)), sep)

\* a task's outcome: a returned value or a raised exception
Returned(v) == [raised |-> "", value |-> v]
Raised(e) == [raised |-> e, value |-> <<>>]

extract_event_payload(msg) ==
    LET parts == Split(msg, Marker)
    IN  IF Len(parts) < 2 THEN Raised("IndexError") ELSE Returned(parts[2])

\* re.search(r">([^<]+)</inBiddingZone_Domain\.mRID>", s): start positions
\* of a match.  The group holds no "<" and the literal after it starts
\* with "<", so the group ends at the first "<" after the opening ">".
NextLt(s, p) ==
    LET lts == {q \in (p + 1)..Len(s) : s[q] = "<"}
    IN  IF lts = {} THEN 0 ELSE CHOOSE q \in lts : \A r \in lts : q <= r

MatchStarts(s) ==
    {p \in 1..Len(s) :
        /\ s[p] = ">"
        /\ NextLt(s, p) > p + 1
        /\ StartsAt(s, NextLt(s, p), ClosingTag)}

extract_region_code(s) ==
    LET ms == MatchStarts(s)
    IN  IF ms = {} THEN <<>>
        ELSE LET p == CHOOSE x \in ms : \A y \in ms : x <= y
             IN  SubSeq(s, p + 1, NextLt(s, p) - 1)

\* entsoe.mappings.lookup_area: an enumeration of the known areas; a
\* string that names none of them raises ValueError.
AreaTable == [code \in {<<"D","E">>} |-> <<"G","e","r","m","a","n","y">>]

lookup_area(code) ==
    IF code \in DOMAIN AreaTable THEN Returned(AreaTable[code])
    ELSE Raised("ValueError")

(* ------------------------------ frames --------------------------------- *)
\* a column key: a plain string (label = "") or a (type, label) tuple
Key(t, l) == [type |-> t, label |-> l]
NoKey == Key("", "")

GenKeys == {Key("Wind", ""), Key("Wind", "Actual Aggregated"),
            Key("Wind", "Actual Consumption")}
GenValues == {42, 75}
InstalledValues == {-50, 0, 50}

Timestamp(m) == [hour |-> 10, minute |-> m]
NoTimestamp == [hour |-> 0, minute |-> 0]

Row(m, v) == [index |-> Timestamp(m), cells |-> <<v>>]

GenRows == {Row(0, v) : v \in GenValues} \cup {Row(30, 42)}

\* what the generation codec can return: one column, up to MaxRows rows
GenFrames == {[columns |-> <<k>>, rows |-> rs] :
                k \in GenKeys,
                rs \in UNION {[1..n -> GenRows] : n \in 0..MaxRows}}
NoFrame == [columns |-> <<>>, rows |-> <<>>]

\* a capacity series: the first-row value of each column of the frame
EmptySeries == {}
CapacitySeries == {{[type |-> "Solar", installed |-> 50]}}
    \cup {{[type |-> "Wind", installed |-> v]} : v \in InstalledValues}

\* generation_df.loc[generation_df.index.minute == 0]
RECURSIVE FilterRows(_)
FilterRows(rs) ==
    IF rs = <<>> THEN <<>>
    ELSE IF Head(rs).index.minute = 0
         THEN <<Head(rs)>> \o FilterRows(Tail(rs))
         ELSE FilterRows(Tail(rs))

HourFilter_Keep(df) == df

HourFilter(df) == [columns |-> df.columns, rows |-> FilterRows(df.rows)]

\* "aggregated" in label.lower()
ContainsAggregated(label) == label \in {"Actual Aggregated"}

IsTuple(k) == k.label # ""

GenerationType(column_name) ==
    IF IsTuple(column_name) /\ ContainsAggregated(column_name.label)
    THEN Key(column_name.type, "")
    ELSE column_name

\* installed_capacity_df[generation_type] raises KeyError
KeyMissing(cap, k) == IsTuple(k) \/ ~ \E e \in cap : e.type = k.type

Installed(cap, k) == (CHOOSE e \in cap : e.type = k.type).installed

\* round(n / d * 100) on the exact quotient, ties to the even neighbour
\* (the float product can land on the other side of a tie)
Round(n, d) ==
    LET nn == IF d < 0 THEN -n ELSE n
        dd == IF d < 0 THEN -d ELSE d
        q == nn \div dd
        r == nn % dd
    IN  IF 2 * r < dd THEN q
        ELSE IF 2 * r > dd THEN q + 1
        ELSE IF q % 2 = 0 THEN q ELSE q + 1

Percentage(generation, installed) == Round(generation * 100, installed)

\* c * n for a one-character string c: empty when n <= 0
Rep(c, n) == [i \in 1..n |-> c]

Bar_Short(percentage) ==
    Rep("#", percentage) \o Rep("_", 99 - percentage)

Bar(percentage) == Rep("#", percentage) \o Rep("_", 100 - percentage)

ChartLine(row, installed) ==
    LET p == Percentage(row.cells[1], installed)
    IN  [kind |-> "bar", index |-> row.index, bar |-> Bar(p),
         percentage |-> p, generation |-> row.cells[1],
         installed |-> installed, type |-> NoKey]

Notice(kind, k) ==
    [kind |-> kind, index |-> NoTimestamp, bar |-> <<>>, percentage |-> 0,
     generation |-> 0, installed |-> 0, type |-> k]

NoticeLines(generation_type) ==
    <<Notice("not_available", generation_type), Notice("hint", NoKey)>>

JoinedRows(rs, installed) ==
    [i \in 1..Len(rs) |->
        [index |-> rs[i].index, cells |-> <<rs[i].cells[1], installed>>]]

NoData == [chart |-> <<>>, df |-> NoFrame, title |-> NoKey]

transform_data(parsed, capacity) ==
    LET df == HourFilter(parsed)
        column_name == df.columns[1]
        generation_type == GenerationType(column_name)
    IN  IF KeyMissing(capacity, generation_type)
        THEN Returned([chart |-> NoticeLines(generation_type), df |-> df,
                       title |-> generation_type])
        ELSE LET installed == Installed(capacity, generation_type)
             IN  IF installed = 0 /\ df.rows # <<>>
                 THEN Raised("ArithmeticError")
                 ELSE Returned(
                        [chart |-> [i \in 1..Len(df.rows) |->
                                        ChartLine(df.rows[i], installed)],
                         df |-> [columns |-> <<Key("generation", ""),
                                               Key("installed", "")>>,
                                 rows |-> JoinedRows(df.rows, installed)],
                         title |-> generation_type])

(* ------------------------------ the run -------------------------------- *)
Users == 1..NumUsers

FetchRetries_More == 3 + 1

FetchRetries_Fewer == 3 - 2

FetchRetries == 3
TransformRetries == 3
SendRetries == 3

\* the call that moves the run to a stage, and the values it is given
Call(stage, reads) == [stage |-> stage, reads |-> reads]

Init ==
    /\ event_msg \in Events
    /\ state = "Received"
    /\ failed_at = ""
    /\ event_payload = <<>>
    /\ region_code = <<>>
    /\ region = <<>>
    /\ fetch_log = <<>>
    /\ api_series = EmptySeries
    /\ installed_capacity = EmptySeries
    /\ generation_df = NoFrame
    /\ transform_attempts = 0
    /\ data = NoData
    /\ send_attempts = 0
    /\ mail = [u \in Users |-> "none"]
    /\ inputs = Call("Received", {})

Fail_Continue(stage) ==
    /\ state' = "Done"
    /\ failed_at' = stage

\* an exception that reaches data_flow ends the run
Fail(stage) ==
    /\ state' = "Failed"
    /\ failed_at' = stage

\* dataflow.py:126
ExtractEventPayload ==
    /\ state = "Received"
    /\ inputs' = Call("PayloadExtracted", {"event_msg"})
    /\ LET r == extract_event_payload(event_msg)
       IN  IF r.raised = ""
           THEN /\ event_payload' = r.value
                /\ state' = "PayloadExtracted"
                /\ UNCHANGED failed_at
           ELSE /\ Fail("extract_event_payload")
                /\ UNCHANGED event_payload
    /\ UNCHANGED <<event_msg, region_code, region, fetch_log, api_series,
                   installed_capacity, generation_df, transform_attempts,
                   data, send_attempts, mail>>

\* dataflow.py:127-128
ResolveRegion ==
    /\ state = "PayloadExtracted"
    /\ inputs' = Call("RegionResolved", {"event_msg"})
    /\ region_code' = extract_region_code(event_msg)
    /\ LET r == lookup_area(region_code')
       IN  IF r.raised = ""
           THEN /\ region' = r.value
                /\ state' = "RegionResolved"
                /\ UNCHANGED failed_at
           ELSE /\ Fail("lookup_area")
                /\ UNCHANGED region
    /\ UNCHANGED <<event_msg, event_payload, fetch_log, api_series,
                   installed_capacity, generation_df, transform_attempts,
                   data, send_attempts, mail>>

\* dataflow.py:129, one execution of extract_installed_capacity
FetchUnchanged ==
    UNCHANGED <<event_msg, event_payload, region_code, region,
                generation_df, transform_attempts, data, send_attempts, mail>>

FetchOk ==
    /\ state = "RegionResolved"
    /\ \E series \in CapacitySeries :
        /\ api_series' = series
        /\ installed_capacity' = series
    /\ fetch_log' = Append(fetch_log, "ok")
    /\ inputs' = Call("CapacityFetched", {"region_code"})
    /\ state' = "CapacityFetched"
    /\ UNCHANGED failed_at
    /\ FetchUnchanged

FetchAuthFailed ==
    /\ state = "RegionResolved"
    /\ fetch_log' = Append(fetch_log, "auth401")
    /\ installed_capacity' = EmptySeries
    /\ inputs' = Call("CapacityFetched", {"region_code"})
    /\ state' = "CapacityFetched"
    /\ UNCHANGED <<failed_at, api_series>>
    /\ FetchUnchanged

FetchTransient ==
    /\ state = "RegionResolved"
    /\ fetch_log' = Append(fetch_log, "transient")
    /\ inputs' = Call("CapacityFetched", {"region_code"})
    /\ IF Len(fetch_log') > FetchRetries
       THEN Fail("extract_installed_capacity")
       ELSE UNCHANGED <<state, failed_at>>
    /\ UNCHANGED <<api_series, installed_capacity>>
    /\ FetchUnchanged

\* dataflow.py:130, one execution of transform_data
TransformData ==
    /\ state = "CapacityFetched"
    /\ \E parsed \in (IF transform_attempts = 0 THEN GenFrames
                      ELSE {generation_df}) :
        /\ generation_df' = parsed
        /\ LET r == transform_data(parsed, installed_capacity)
           IN  IF r.raised = ""
               THEN /\ data' = r.value
                    /\ state' = "ReportBuilt"
                    /\ UNCHANGED failed_at
               ELSE /\ UNCHANGED data
                    /\ IF transform_attempts + 1 > TransformRetries
                       THEN Fail("transform_data")
                       ELSE UNCHANGED <<state, failed_at>>
    /\ transform_attempts' = transform_attempts + 1
    /\ inputs' = Call("ReportBuilt", {"event_payload", "installed_capacity"})
    /\ UNCHANGED <<event_msg, event_payload, region_code, region, fetch_log,
                   api_series, installed_capacity, send_attempts, mail>>

\* dataflow.py:131, send_newsletters
SendUnchanged ==
    UNCHANGED <<event_msg, event_payload, region_code, region, fetch_log,
                api_series, installed_capacity, generation_df,
                transform_attempts, data>>

Sending == state = "ReportBuilt" /\ send_attempts > 0

StartSend ==
    /\ state = "ReportBuilt"
    /\ send_attempts = 0
    /\ send_attempts' = 1
    /\ inputs' = Call("Dispatched", {"data", "region"})
    /\ UNCHANGED <<state, failed_at, mail>>
    /\ SendUnchanged

\* the loop of send_newsletters, one iteration: .submit() returns a future
NotSubmitted == {u \in Users : mail[u] = "none"}

Submit ==
    /\ Sending
    /\ NotSubmitted # {}
    /\ LET user == CHOOSE u \in NotSubmitted : \A v \in NotSubmitted : u <= v
       IN  mail' = [mail EXCEPT ![user] = "pending"]
    /\ UNCHANGED <<state, failed_at, send_attempts, inputs>>
    /\ SendUnchanged

\* a submitted email_send_message run ends
MailSent(u) ==
    /\ mail[u] = "pending"
    /\ mail' = [mail EXCEPT ![u] = "sent"]
    /\ UNCHANGED <<state, failed_at, send_attempts, inputs>>
    /\ SendUnchanged

MailFailed(u) ==
    /\ mail[u] = "pending"
    /\ mail' = [mail EXCEPT ![u] = "failed"]
    /\ UNCHANGED <<state, failed_at, send_attempts, inputs>>
    /\ SendUnchanged

\* the function has returned None and every submitted run has ended
AttemptOver ==
    /\ Sending
    /\ \A u \in Users : mail[u] \in {"sent", "failed"}

AnyFailed == \E u \in Users : mail[u] = "failed"

SendCompleted ==
    /\ AttemptOver
    /\ ~ AnyFailed
    /\ state' = "Dispatched"
    /\ UNCHANGED <<failed_at, send_attempts, mail, inputs>>
    /\ SendUnchanged

SendRetry ==
    /\ AttemptOver
    /\ AnyFailed
    /\ send_attempts <= SendRetries
    /\ send_attempts' = send_attempts + 1
    /\ mail' = [u \in Users |-> "none"]
    /\ UNCHANGED <<state, failed_at, inputs>>
    /\ SendUnchanged

SendFailed ==
    /\ AttemptOver
    /\ AnyFailed
    /\ send_attempts > SendRetries
    /\ Fail("send_newsletters")
    /\ UNCHANGED <<send_attempts, mail, inputs>>
    /\ SendUnchanged

\* data_flow returns
Finish ==
    /\ state = "Dispatched"
    /\ state' = "Done"
    /\ UNCHANGED <<failed_at, send_attempts, mail, inputs>>
    /\ SendUnchanged

Next ==
    \/ ExtractEventPayload
    \/ ResolveRegion
    \/ FetchOk
    \/ FetchAuthFailed
    \/ FetchTransient
    \/ TransformData
    \/ StartSend
    \/ Submit
    \/ \E u \in Users : MailSent(u)
    \/ \E u \in Users : MailFailed(u)
    \/ SendCompleted
    \/ SendRetry
    \/ SendFailed
    \/ Finish

Spec == Init /\ [][Next]_vars

(* ------------------------------ properties ----------------------------- *)
Built == state \in {"ReportBuilt", "Dispatched", "Done"}

\* the first n responses of the capacity API were transient failures
Transients(n) ==
    /\ Len(fetch_log) >= n
    /\ \A i \in 1..n : fetch_log[i] = "transient"

\* C1 as stated: after 3 consecutive transient failures of the capacity
\* fetch no further attempt is made and the run ends in Failed.
C1_ThreeFailuresFatal ==
    Transients(3) =>
        /\ Len(fetch_log) = 3
        /\ state \in {"Done", "Failed"} => state = "Failed"

\* C1: after 4 consecutive transient failures of the capacity fetch (the
\* first execution and its 3 retries) no further attempt is made and the
\* run is in the terminal Failed state; a fifth attempt never happens.
C1_FourFailuresFatal ==
    /\ Len(fetch_log) <= 4
    /\ Transients(4) =>
        /\ state = "Failed"
        /\ failed_at = "extract_installed_capacity"

C1_Witness == Transients(4) /\ state = "Failed"

\* C2: transient failures on attempts 1 and 2 leave the fetch pending, and
\* when attempt 3 succeeds the fetched series is the one the report is
\* built from; the run never fails at the capacity fetch.
C2_RetrySuccess ==
    /\ (Transients(2) /\ Len(fetch_log) = 2) => state = "RegionResolved"
    /\ fetch_log = <<"transient", "transient", "ok">> =>
        /\ installed_capacity = api_series
        /\ state # "RegionResolved"
        /\ failed_at # "extract_installed_capacity"
        /\ Built => data = transform_data(generation_df, api_series).value

C2_Witness ==
    /\ fetch_log = <<"transient", "transient", "ok">>
    /\ state = "ReportBuilt"
    /\ api_series # EmptySeries
    /\ data.chart # <<>>

\* C3: a 401 from the capacity API is the last fetch attempt, the capacity
\* series is empty, the report is the two-notice report, and the run does
\* not end in Failed.
C3_AuthFailureCompletes ==
    (\E i \in 1..Len(fetch_log) : fetch_log[i] = "auth401") =>
        /\ fetch_log[Len(fetch_log)] = "auth401"
        /\ \A i \in 1..(Len(fetch_log) - 1) : fetch_log[i] # "auth401"
        /\ installed_capacity = EmptySeries
        /\ Built => data.chart = NoticeLines(data.title)
        /\ state # "Failed"

\* C4: every user is submitted to before the dispatch stage is over, a
\* failed submission never blocks the next one, and the failure of a
\* single recipient does not put the run into Failed.
C4_RecipientIsolation ==
    /\ state \in {"Dispatched", "Done"} => \A u \in Users : mail[u] # "none"
    /\ (Sending /\ NotSubmitted # {}) => ENABLED Submit
    /\ Cardinality({u \in Users : mail[u] = "failed"}) = 1 => state # "Failed"

\* C5: with the marker in the raw event the payload is everything after
\* its first occurrence; without the marker the call does not raise.
C5_PayloadAfterFirstMarker ==
    state # "Received" =>
        LET i == Find(event_msg, Marker)
        IN  /\ failed_at # "extract_event_payload"
            /\ i > 0 => event_payload =
                    SubSeq(event_msg, i + Len(Marker), Len(event_msg))

\* C6: an event without a region tag gives the empty region code and the
\* run does not fail at a later stage because of it.
C6_MissingRegionTolerated ==
    (MatchStarts(event_msg) = {}
        /\ state \notin {"Received", "PayloadExtracted"}
        /\ failed_at # "extract_event_payload") =>
            /\ region_code = <<>>
            /\ state # "Failed"

\* C7: when the canonical generation type is in the capacity series with
\* an installed value <= 0, transform_data does not raise and every
\* percentage of the chart is 100.
C7_DegradedCapacityFallback ==
    transform_attempts > 0 =>
        LET gt == GenerationType(generation_df.columns[1])
        IN  (~ IsTuple(gt)
             /\ \E e \in installed_capacity :
                    e.type = gt.type /\ e.installed <= 0) =>
                /\ state # "CapacityFetched"
                /\ failed_at # "transform_data"
                /\ \A i \in 1..Len(data.chart) :
                        data.chart[i].percentage = 100

\* C8: when the canonical generation type has no entry in the capacity
\* series, transform_data returns at its first execution; the chart is the
\* two notice lines, the table is the generation frame restricted to the
\* full-hour rows, and the title is the canonical generation type.
C8_JoinMiss ==
    transform_attempts > 0 =>
        LET gt == GenerationType(generation_df.columns[1])
        IN  (IsTuple(gt) \/ \A e \in installed_capacity : e.type # gt.type) =>
                /\ state # "CapacityFetched"
                /\ failed_at # "transform_data"
                /\ transform_attempts = 1
                /\ Len(data.chart) = 2
                /\ data.chart[1] = Notice("not_available", gt)
                /\ data.chart[2] = Notice("hint", NoKey)
                /\ data.df.columns = generation_df.columns
                /\ data.df.rows = SelectSeq(generation_df.rows,
                                      LAMBDA r : r.index.minute = 0)
                /\ data.title = gt

C8_Witness ==
    /\ state = "ReportBuilt"
    /\ installed_capacity # EmptySeries
    /\ Len(data.chart) = 2
    /\ data.chart[1].kind = "not_available"
    /\ data.df.rows # <<>>
    /\ Len(data.df.rows) < Len(generation_df.rows)

Count(bar, c) == Cardinality({i \in 1..Len(bar) : bar[i] = c})

BarLines == {i \in 1..Len(data.chart) : data.chart[i].kind = "bar"}

\* C9 as stated: every bar has exactly `percentage` '#' characters and 100
\* characters in all, whatever the percentage.
C9_BarAlways100 ==
    Built => \A i \in BarLines :
        LET line == data.chart[i]
        IN  /\ Count(line.bar, "#") = line.percentage
            /\ Count(line.bar, "#") + Count(line.bar, "_") = 100

Max0(n) == IF n > 0 THEN n ELSE 0

\* C9: a bar is max(percentage, 0) '#' characters followed by
\* max(100 - percentage, 0) '_' characters: 100 characters with exactly
\* `percentage` '#' when 0 <= percentage <= 100, `percentage` '#' and no
\* '_' above 100, and 100 - percentage '_' and no '#' below 0.
C9_BarLength ==
    Built => \A i \in BarLines :
        LET line == data.chart[i]
            p == line.percentage
        IN  /\ Len(line.bar) = Max0(p) + Max0(100 - p)
            /\ \A j \in 1..Len(line.bar) :
                   line.bar[j] = IF j <= Max0(p) THEN "#" ELSE "_"
            /\ p \in 0..100 =>
                   /\ Count(line.bar, "#") = p
                   /\ Count(line.bar, "#") + Count(line.bar, "_") = 100

C9_Witness ==
    /\ Built
    /\ \E i \in BarLines : data.chart[i].percentage \in 0..100
    /\ \E i \in BarLines : data.chart[i].percentage > 100

\* the values each stage leaves behind (dataflow.py:126-131)
Produces(stage) ==
    CASE stage = "Received" -> {"event_msg"}
      [] stage = "PayloadExtracted" -> {"event_payload"}
      [] stage = "RegionResolved" -> {"region_code", "region"}
      [] stage = "CapacityFetched" -> {"installed_capacity"}
      [] stage = "ReportBuilt" -> {"data"}
      [] OTHER -> {}

Stages == <<"Received", "PayloadExtracted", "RegionResolved",
            "CapacityFetched", "ReportBuilt", "Dispatched", "Done">>

Pos(stage) == CHOOSE i \in 1..Len(Stages) : Stages[i] = stage

InOrder(s, t) ==
    \/ t = "Failed" /\ s \notin {"Dispatched", "Done", "Failed"}
    \/ (s # "Failed" /\ t # "Failed" /\ Pos(t) = Pos(s) + 1)

Sequential ==
    /\ state' # state => InOrder(state, state')
    /\ state \in {"Done", "Failed"} => UNCHANGED vars
    /\ mail' # mail => (data # NoData /\ state = "ReportBuilt")
    /\ inputs' # inputs =>
            (state # "Failed" /\ Pos(inputs'.stage) = Pos(state) + 1)

\* C10 as stated: the stages run in the one order, Failed is terminal, and
\* each stage reads nothing but the output of the stage before it.
C10_SoleInput ==
    inputs.stage # "Received" =>
        inputs.reads \subseteq Produces(Stages[Pos(inputs.stage) - 1])

\* C10: the stages run in the one order, each stage starts only after the
\* stage before it has returned, Failed and Done are terminal and nothing
\* is submitted unless the report was built in this run; a stage reads
\* values left by the earlier stages of the run (the raw event included),
\* not only those of the stage before it.
C10_Sequencing ==
    /\ [][Sequential]_vars
    /\ [](inputs.stage # "Received" =>
            /\ inputs.reads # {}
            /\ inputs.reads \subseteq
                 UNION {Produces(Stages[i]) : i \in 1..(Pos(inputs.stage) - 1)})

C10_Witness ==
    /\ state = "Done"
    /\ inputs = Call("Dispatched", {"data", "region"})
    /\ \A u \in Users : mail[u] = "sent"
====
